---- MODULE Spec2Model ----
(***************************************************************************)
(* KaviosPix server: the album and image routes over the Album and Image   *)
(* collections and the Cloudinary media host.                              *)
(*                                                                         *)
(* Strings whose characters the code inspects (emails, comments, MIME      *)
(* types) are sequences of one-character strings.                          *)
(***************************************************************************)
EXTENDS Integers, Sequences, FiniteSets, TLC

VARIABLES albums, images, cloud, now, nextAlbum, nextImage, res, req, calls

vars == <<albums, images, cloud, now, nextAlbum, nextImage, res, req, calls>>

(***************************************************************************)
(* Bounds of the model.                                                    *)
(***************************************************************************)
\* SpecAlbums and SpecOwner: albums created, images uploaded, clock values.
MaxAlbums == 2
MaxImages == 2
MaxTime == 1
\* SpecAccess and SpecImages: albums created, images uploaded, comments on an image.
MaxImageAlbums == 1
MaxAlbumImages == 1
MaxComments == 2
\* SpecAuth: days the clock runs.
MaxDays == 8
\* SpecRace and SpecWriters: requests in flight at once (SpecWriters starts a share
\* while sharedWith is shorter than MaxComments).
MaxCalls == 2

(***************************************************************************)
(* Request inputs.                                                         *)
(***************************************************************************)
EmailA == <<"a", "@", "x", ".", "c">>
EmailB == <<"b", "@", "x", ".", "c">>
EmailC == <<"c", "@", "x", ".", "c">>
EmailNoAt == <<"b", "x", ".", "c">>
EmailNoDot == <<"b", "@", "x">>
EmailSpace == <<"b", " ", "@", "x", ".", "c">>

\* req.user: the claims of the verified token.
P1 == [userId |-> "u1", email |-> EmailA]
P2 == [userId |-> "u2", email |-> EmailB]
P3 == [userId |-> "u3", email |-> EmailC]
Principals == {P1, P2, P3}

\* A request field that may be absent: undefined, or a value.
Undefined == [kind |-> "undefined", val |-> <<>>]
Str(s) == [kind |-> "string", val |-> s]
NonStr == [kind |-> "number", val |-> <<>>]

(***************************************************************************)
(* Pure helpers.                                                           *)
(***************************************************************************)
Includes(arr, x) == \E i \in 1..Len(arr) : arr[i] = x

SeqToSet(arr) == {arr[i] : i \in 1..Len(arr)}

Whitespace == {" ", "\t", "\n"}

\* [^\s@]+
NoSpaceAt(s) == Len(s) > 0 /\ \A i \in 1..Len(s) : s[i] \notin Whitespace \cup {"@"}

\* /^[^\s@]+@[^\s@]+\.[^\s@]+$/.test(email)
emailRegexTest(email) ==
    \E i, j \in 1..Len(email) :
        /\ i < j
        /\ email[i] = "@"
        /\ email[j] = "."
        /\ NoSpaceAt(SubSeq(email, 1, i - 1))
        /\ NoSpaceAt(SubSeq(email, i + 1, j - 1))
        /\ NoSpaceAt(SubSeq(email, j + 1, Len(email)))

\* emails.filter(email => emailRegex.test(email))
RECURSIVE Filter(_)
Filter(emails) ==
    IF emails = <<>> THEN <<>>
    ELSE IF emailRegexTest(Head(emails))
         THEN <<Head(emails)>> \o Filter(Tail(emails))
         ELSE Filter(Tail(emails))

\* Mutant of PushEmail: the owner's email is not excluded.
PushEmailNoOwnerCheck(sharedWith, ownerEmail, email) ==
    IF ~Includes(sharedWith, email) THEN Append(sharedWith, email) ELSE sharedWith

\* Mutant of PushEmail: an email already present is pushed again.
PushEmailNoDupCheck(sharedWith, ownerEmail, email) ==
    IF email # ownerEmail THEN Append(sharedWith, email) ELSE sharedWith

\* The body of the forEach: push unless already present or the owner's email.
PushEmail(sharedWith, ownerEmail, email) ==
    IF ~Includes(sharedWith, email) /\ email # ownerEmail
    THEN Append(sharedWith, email)
    ELSE sharedWith

\* validEmails.forEach(...)
RECURSIVE AddEmails(_, _, _)
AddEmails(sharedWith, ownerEmail, validEmails) ==
    IF validEmails = <<>> THEN sharedWith
    ELSE AddEmails(PushEmail(sharedWith, ownerEmail, Head(validEmails)),
                   ownerEmail, Tail(validEmails))

\* Mutant of hasAccess: the sharedWith test is missing.
hasAccessOwnerOnly(album, user) == album.ownerId = user.userId

\* album.ownerId === req.user.userId || album.sharedWith.includes(req.user.email)
hasAccess(album, user) ==
    album.ownerId = user.userId \/ Includes(album.sharedWith, user.email)

\* Mutant of isOwner: a shared member passes the owner check.
isOwnerOrShared(album, user) ==
    album.ownerId = user.userId \/ Includes(album.sharedWith, user.email)

\* album.ownerId !== req.user.userId, negated
isOwner(album, user) == album.ownerId = user.userId

(***************************************************************************)
(* Responses.                                                              *)
(***************************************************************************)
NoBody == <<>>

Response(op, user, albumId, imageId, arg, status, body) ==
    [op |-> op, user |-> user, albumId |-> albumId, imageId |-> imageId,
     arg |-> arg, status |-> status, body |-> body]

Init ==
    /\ albums = {}
    /\ images = {}
    /\ cloud = {}
    /\ now = 0
    /\ nextAlbum = 1
    /\ nextImage = 1
    /\ res = Response("none", P1, 0, 0, Undefined, 0, NoBody)
    /\ req = [cookie |-> Undefined, authorization |-> Undefined]
    /\ calls = {}

\* Date.now advances between requests.
Tick ==
    /\ now' = now + 1
    /\ UNCHANGED <<albums, images, cloud, nextAlbum, nextImage, res, req, calls>>

(***************************************************************************)
(* Collections.                                                            *)
(***************************************************************************)
\* Album.findOne({ albumId }): the matching documents (none or one).
FindAlbum(albumId) == {a \in albums : a.albumId = albumId}

\* Mutant of FindImage: the album of the request is not part of the query.
FindImageAnyAlbum(imageId, albumId) == {i \in images : i.imageId = imageId}

\* Image.findOne({ imageId, albumId })
FindImage(imageId, albumId) ==
    {i \in images : i.imageId = imageId /\ i.albumId = albumId}

\* doc.save() of a loaded document: replaces the stored one with the same key.
SaveAlbum(old, new) == (albums \ {old}) \cup {new}

SaveImage(old, new) == (images \ {old}) \cup {new}

\* A falsy request string: undefined or ''.
Falsy(field) == field.kind = "undefined" \/ field.val = <<>>

(***************************************************************************)
(* Album routes.                                                           *)
(***************************************************************************)
\* new Album({...}) with the schema defaults
NewAlbum(albumId, name, description, user) ==
    [albumId |-> albumId,
     name |-> name.val,
     description |-> IF Falsy(description) THEN <<>> ELSE description.val,
     ownerId |-> user.userId,
     ownerEmail |-> user.email,
     sharedWith |-> <<>>,
     createdAt |-> now]

\* POST /albums
CreateAlbum(user, name, description) ==
    /\ UNCHANGED <<images, cloud, now, nextImage>>
    /\ IF Falsy(name)
       THEN /\ res' = Response("createAlbum", user, 0, 0, name, 400, NoBody)
            /\ UNCHANGED <<albums, nextAlbum>>
       ELSE /\ albums' = albums \cup {NewAlbum(nextAlbum, name, description, user)}
            /\ nextAlbum' = nextAlbum + 1
            /\ res' = Response("createAlbum", user, nextAlbum, 0, name, 201, NoBody)

\* Mutant of FindAlbumsFor: the sharedWith branch of the $or is missing.
FindAlbumsOwnedOnly(user) == {a \in albums : a.ownerId = user.userId}

\* Album.find({ $or: [{ ownerId: userId }, { sharedWith: userEmail }] })
FindAlbumsFor(user) ==
    {a \in albums : a.ownerId = user.userId \/ Includes(a.sharedWith, user.email)}

\* .sort({ [key]: -1 }): the orders of docs the sort may return (documents with equal
\* keys come in either order).
SortNewestFirst(docs, key) ==
    {s \in [1..Cardinality(docs) -> docs] :
        /\ \A i, j \in 1..Cardinality(docs) : i # j => s[i] # s[j]
        /\ \A i, j \in 1..Cardinality(docs) : i < j => s[i][key] >= s[j][key]}

\* GET /albums
ListAlbums(user) ==
    /\ \E sorted \in SortNewestFirst(FindAlbumsFor(user), "createdAt") :
          res' = Response("listAlbums", user, 0, 0, Undefined, 200,
                          [i \in DOMAIN sorted |-> sorted[i].albumId])
    /\ UNCHANGED <<albums, images, cloud, now, nextAlbum, nextImage>>

\* GET /albums/:albumId
GetAlbum(user, albumId) ==
    /\ UNCHANGED <<albums, images, cloud, now, nextAlbum, nextImage>>
    /\ IF FindAlbum(albumId) = {}
       THEN res' = Response("getAlbum", user, albumId, 0, Undefined, 404, NoBody)
       ELSE \E album \in FindAlbum(albumId) :
              IF ~hasAccess(album, user)
              THEN res' = Response("getAlbum", user, albumId, 0, Undefined, 403, NoBody)
              ELSE res' = Response("getAlbum", user, albumId, 0, Undefined, 200, album)

\* POST /albums/:albumId
UpdateDescription(user, albumId, description) ==
    /\ UNCHANGED <<images, cloud, now, nextAlbum, nextImage>>
    /\ IF FindAlbum(albumId) = {}
       THEN /\ res' = Response("updateDescription", user, albumId, 0, description, 404, NoBody)
            /\ UNCHANGED albums
       ELSE \E album \in FindAlbum(albumId) :
              IF ~isOwner(album, user)
              THEN /\ res' = Response("updateDescription", user, albumId, 0, description,
                                      403, NoBody)
                   /\ UNCHANGED albums
              ELSE LET saved == [album EXCEPT !.description =
                                    IF Falsy(description) THEN @ ELSE description.val]
                   IN /\ albums' = SaveAlbum(album, saved)
                      /\ res' = Response("updateDescription", user, albumId, 0, description,
                                         200, saved.description)

\* POST /albums/:albumId/share; emails is undefined or an array.
ShareAlbum(user, albumId, emails) ==
    /\ UNCHANGED <<images, cloud, now, nextAlbum, nextImage>>
    /\ IF emails.kind # "array" \/ Len(emails.val) = 0
       THEN /\ res' = Response("share", user, albumId, 0, emails, 400, NoBody)
            /\ UNCHANGED albums
       ELSE IF FindAlbum(albumId) = {}
       THEN /\ res' = Response("share", user, albumId, 0, emails, 404, NoBody)
            /\ UNCHANGED albums
       ELSE \E album \in FindAlbum(albumId) :
              IF ~isOwner(album, user)
              THEN /\ res' = Response("share", user, albumId, 0, emails, 403, NoBody)
                   /\ UNCHANGED albums
              ELSE IF Len(Filter(emails.val)) = 0
              THEN /\ res' = Response("share", user, albumId, 0, emails, 400, NoBody)
                   /\ UNCHANGED albums
              ELSE LET saved == [album EXCEPT !.sharedWith =
                                    AddEmails(@, album.ownerEmail, Filter(emails.val))]
                   IN /\ albums' = SaveAlbum(album, saved)
                      /\ res' = Response("share", user, albumId, 0, emails, 200,
                                         saved.sharedWith)

\* Mutant of DeleteManyImages: the filter is dropped and every image goes.
DeleteManyNoFilter(albumId) == {}

\* Mutant of DeleteManyImages: nothing is deleted.
DeleteManyNothing(albumId) == images

\* Image.deleteMany({ albumId })
DeleteManyImages(albumId) == {i \in images : i.albumId # albumId}

\* Album.deleteOne({ albumId })
DeleteOneAlbum(albumId) == {a \in albums : a.albumId # albumId}

\* DELETE /albums/:albumId
DeleteAlbum(user, albumId) ==
    /\ UNCHANGED <<cloud, now, nextAlbum, nextImage>>
    /\ IF FindAlbum(albumId) = {}
       THEN /\ res' = Response("deleteAlbum", user, albumId, 0, Undefined, 404, NoBody)
            /\ UNCHANGED <<albums, images>>
       ELSE \E album \in FindAlbum(albumId) :
              IF ~isOwner(album, user)
              THEN /\ res' = Response("deleteAlbum", user, albumId, 0, Undefined, 403, NoBody)
                   /\ UNCHANGED <<albums, images>>
              ELSE /\ images' = DeleteManyImages(albumId)
                   /\ albums' = DeleteOneAlbum(albumId)
                   /\ res' = Response("deleteAlbum", user, albumId, 0, Undefined, 200, NoBody)

(***************************************************************************)
(* Image routes.                                                           *)
(***************************************************************************)
\* limits: { fileSize: 5 * 1024 * 1024 }
FileSizeLimit == 5 * 1024 * 1024

\* The multipart part named 'file', or none.
NoFile == [kind |-> "undefined", originalname |-> <<>>, mimetype |-> <<>>, size |-> 0]
File(originalname, mimetype, size) ==
    [kind |-> "file", originalname |-> originalname, mimetype |-> mimetype, size |-> size]

\* pattern.test(s) for a pattern of literal characters: s contains it.
Contains(s, pattern) ==
    \E i \in 1..(Len(s) - Len(pattern) + 1) :
        SubSeq(s, i, i + Len(pattern) - 1) = pattern

\* /jpeg|jpg|png|gif|webp/
allowedTypes ==
    {<<"j", "p", "e", "g">>, <<"j", "p", "g">>, <<"p", "n", "g">>,
     <<"g", "i", "f">>, <<"w", "e", "b", "p">>}

\* fileFilter: cb(null, true) or cb(new Error(...))
fileFilter(file) == \E pattern \in allowedTypes : Contains(file.mimetype, pattern)

\* Mutant of MulterRejects: the limits option is missing.
MulterRejectsTypeOnly(file) == file.kind = "file" /\ ~fileFilter(file)

\* upload.single('file'): the file is refused by the filter or by the size limit.
MulterRejects(file) ==
    file.kind = "file" /\ (~fileFilter(file) \/ file.size > FileSizeLimit)

\* The tags field: undefined, an array, a string that is the JSON of an array, or a
\* string that is no JSON.
TagsArray(tags) == [kind |-> "array", val |-> tags]
TagsJson(tags) == [kind |-> "json", val |-> tags]
TagsMalformed == [kind |-> "malformed", val |-> <<>>]

\* parsedTags
ParseTags(tags) ==
    IF tags.kind \in {"array", "json"} THEN tags.val ELSE <<>>

Bool(b) == [kind |-> "boolean", val |-> b]
StrTrue == <<"t", "r", "u", "e">>

\* isFavorite === 'true' || isFavorite === true
UploadIsFavorite(isFavorite) ==
    \/ (isFavorite.kind = "string" /\ isFavorite.val = StrTrue)
    \/ (isFavorite.kind = "boolean" /\ isFavorite.val = TRUE)

\* uploadToCloudinary: rejects, or resolves with the stored object.
GatewayFails == [kind |-> "fail", public_id |-> <<>>, secure_url |-> <<>>, bytes |-> 0]
GatewayNotCalled == [kind |-> "none", public_id |-> <<>>, secure_url |-> <<>>, bytes |-> 0]
GatewayStores(albumId, n, bytes) ==
    [kind |-> "ok", public_id |-> <<"kaviospix", albumId, n>>,
     secure_url |-> <<"https", albumId, n>>, bytes |-> bytes]

\* new Image({...}) with the schema defaults
NewImage(imageId, albumId, file, uploadResult, tags, person, isFavorite, user) ==
    [imageId |-> imageId,
     albumId |-> albumId,
     name |-> file.originalname,
     filename |-> file.originalname,
     cloudinaryUrl |-> uploadResult.secure_url,
     cloudinaryPublicId |-> uploadResult.public_id,
     tags |-> ParseTags(tags),
     person |-> IF Falsy(person) THEN <<>> ELSE person.val,
     isFavorite |-> UploadIsFavorite(isFavorite),
     comments |-> <<>>,
     size |-> uploadResult.bytes,
     uploadedAt |-> now,
     uploadedBy |-> user.userId]

UploadArg(file, uploadResult) == [file |-> file, uploadResult |-> uploadResult]

\* POST /albums/:albumId/images; gateway is what the media host answers if called.
UploadImage(user, albumId, file, tags, person, isFavorite, gateway) ==
    /\ UNCHANGED <<albums, now, nextAlbum>>
    /\ IF MulterRejects(file)
       THEN /\ res' = Response("upload", user, albumId, 0, UploadArg(file, GatewayNotCalled),
                               500, NoBody)
            /\ UNCHANGED <<images, cloud, nextImage>>
       ELSE IF file.kind = "undefined"
       THEN /\ res' = Response("upload", user, albumId, 0, UploadArg(file, GatewayNotCalled),
                               400, NoBody)
            /\ UNCHANGED <<images, cloud, nextImage>>
       ELSE IF FindAlbum(albumId) = {}
       THEN /\ res' = Response("upload", user, albumId, 0, UploadArg(file, GatewayNotCalled),
                               404, NoBody)
            /\ UNCHANGED <<images, cloud, nextImage>>
       ELSE \E album \in FindAlbum(albumId) :
              IF ~hasAccess(album, user)
              THEN /\ res' = Response("upload", user, albumId, 0,
                                      UploadArg(file, GatewayNotCalled), 403, NoBody)
                   /\ UNCHANGED <<images, cloud, nextImage>>
              ELSE IF gateway.kind = "fail"
              THEN /\ res' = Response("upload", user, albumId, 0,
                                      UploadArg(file, gateway), 500, NoBody)
                   /\ UNCHANGED <<images, cloud, nextImage>>
              ELSE /\ cloud' = cloud \cup {gateway}
                   /\ images' = images \cup
                         {NewImage(nextImage, albumId, file, gateway, tags, person,
                                   isFavorite, user)}
                   /\ nextImage' = nextImage + 1
                   /\ res' = Response("upload", user, albumId, nextImage,
                                      UploadArg(file, gateway), 201, NoBody)

\* tag.trim(): leading and trailing whitespace removed.
RECURSIVE TrimStart(_)
TrimStart(s) ==
    IF s # <<>> /\ Head(s) \in Whitespace THEN TrimStart(Tail(s)) ELSE s

RECURSIVE TrimEnd(_)
TrimEnd(s) ==
    IF s # <<>> /\ s[Len(s)] \in Whitespace THEN TrimEnd(SubSeq(s, 1, Len(s) - 1)) ELSE s

Trim(s) == TrimEnd(TrimStart(s))

\* tags.split(',').map(tag => tag.trim()); the query string is given by its pieces
\* between the commas.
TagArray(tags) == [i \in DOMAIN tags.val |-> Trim(tags.val[i])]

\* Image.find(query): { albumId } and, with a tag filter, { tags: { $in: tagArray } }
FindImages(albumId, tags) ==
    {i \in images :
        /\ i.albumId = albumId
        /\ Falsy(tags) \/ \E t \in SeqToSet(TagArray(tags)) : Includes(i.tags, t)}

\* GET /albums/:albumId/images
ListImages(user, albumId, tags) ==
    /\ UNCHANGED <<albums, images, cloud, now, nextAlbum, nextImage>>
    /\ IF FindAlbum(albumId) = {}
       THEN res' = Response("listImages", user, albumId, 0, tags, 404, NoBody)
       ELSE \E album \in FindAlbum(albumId) :
              IF ~hasAccess(album, user)
              THEN res' = Response("listImages", user, albumId, 0, tags, 403, NoBody)
              ELSE \E sorted \in SortNewestFirst(FindImages(albumId, tags), "uploadedAt") :
                     res' = Response("listImages", user, albumId, 0, tags, 200,
                                     [i \in DOMAIN sorted |-> sorted[i].imageId])

\* Image.find({ albumId, isFavorite: true })
FindFavorites(albumId) == {i \in images : i.albumId = albumId /\ i.isFavorite = TRUE}

\* GET /albums/:albumId/images/favorites
ListFavorites(user, albumId) ==
    /\ UNCHANGED <<albums, images, cloud, now, nextAlbum, nextImage>>
    /\ IF FindAlbum(albumId) = {}
       THEN res' = Response("listFavorites", user, albumId, 0, Undefined, 404, NoBody)
       ELSE \E album \in FindAlbum(albumId) :
              IF ~hasAccess(album, user)
              THEN res' = Response("listFavorites", user, albumId, 0, Undefined, 403, NoBody)
              ELSE \E sorted \in SortNewestFirst(FindFavorites(albumId), "uploadedAt") :
                     res' = Response("listFavorites", user, albumId, 0, Undefined, 200,
                                     [i \in DOMAIN sorted |-> sorted[i].imageId])

\* Mutant of NextFavorite: a request without a value always stars the image.
NextFavoriteStar(image, isFavorite) ==
    IF isFavorite.kind # "undefined" THEN isFavorite.val ELSE TRUE

\* isFavorite !== undefined ? isFavorite : !image.isFavorite
NextFavorite(image, isFavorite) ==
    IF isFavorite.kind # "undefined" THEN isFavorite.val ELSE ~image.isFavorite

\* PUT /albums/:albumId/images/:imageId/favorite
SetFavorite(user, albumId, imageId, isFavorite) ==
    /\ UNCHANGED <<albums, cloud, now, nextAlbum, nextImage>>
    /\ IF FindAlbum(albumId) = {}
       THEN /\ res' = Response("setFavorite", user, albumId, imageId, isFavorite, 404, NoBody)
            /\ UNCHANGED images
       ELSE \E album \in FindAlbum(albumId) :
              IF ~hasAccess(album, user)
              THEN /\ res' = Response("setFavorite", user, albumId, imageId, isFavorite,
                                      403, NoBody)
                   /\ UNCHANGED images
              ELSE IF FindImage(imageId, albumId) = {}
              THEN /\ res' = Response("setFavorite", user, albumId, imageId, isFavorite,
                                      404, NoBody)
                   /\ UNCHANGED images
              ELSE \E image \in FindImage(imageId, albumId) :
                     LET saved == [image EXCEPT !.isFavorite = NextFavorite(image, isFavorite)]
                     IN /\ images' = SaveImage(image, saved)
                        /\ res' = Response("setFavorite", user, albumId, imageId, isFavorite,
                                           200, saved.isFavorite)

\* !comment || comment.trim() === ''
CommentIsEmpty(comment) ==
    Falsy(comment) \/ (comment.kind = "string" /\ Trim(comment.val) = <<>>)

\* Mutant of PushComment: unshift instead of push.
UnshiftComment(image, user, comment) ==
    [image EXCEPT !.comments =
        <<[userId |-> user.userId, userEmail |-> user.email,
           comment |-> Trim(comment.val), createdAt |-> now]>> \o @]

\* image.comments.push({...})
PushComment(image, user, comment) ==
    [image EXCEPT !.comments =
        Append(@, [userId |-> user.userId, userEmail |-> user.email,
                   comment |-> Trim(comment.val), createdAt |-> now])]

\* POST /albums/:albumId/images/:imageId/comments; a comment that is a truthy
\* non-string has no trim method, and the handler's catch answers 500.
AddComment(user, albumId, imageId, comment) ==
    /\ UNCHANGED <<albums, cloud, now, nextAlbum, nextImage>>
    /\ IF CommentIsEmpty(comment)
       THEN /\ res' = Response("addComment", user, albumId, imageId, comment, 400, NoBody)
            /\ UNCHANGED images
       ELSE IF comment.kind # "string"
       THEN /\ res' = Response("addComment", user, albumId, imageId, comment, 500, NoBody)
            /\ UNCHANGED images
       ELSE IF FindAlbum(albumId) = {}
       THEN /\ res' = Response("addComment", user, albumId, imageId, comment, 404, NoBody)
            /\ UNCHANGED images
       ELSE \E album \in FindAlbum(albumId) :
              IF ~hasAccess(album, user)
              THEN /\ res' = Response("addComment", user, albumId, imageId, comment,
                                      403, NoBody)
                   /\ UNCHANGED images
              ELSE IF FindImage(imageId, albumId) = {}
              THEN /\ res' = Response("addComment", user, albumId, imageId, comment,
                                      404, NoBody)
                   /\ UNCHANGED images
              ELSE \E image \in FindImage(imageId, albumId) :
                     LET saved == PushComment(image, user, comment)
                     IN /\ images' = SaveImage(image, saved)
                        /\ res' = Response("addComment", user, albumId, imageId, comment,
                                           200, saved.comments)

\* Mutant of canDelete: every principal with access to the album may delete.
canDeleteWithAccess(album, image, user) ==
    hasAccess(album, user) \/ image.uploadedBy = user.userId

\* album.ownerId === req.user.userId || image.uploadedBy === req.user.userId
canDelete(album, image, user) ==
    album.ownerId = user.userId \/ image.uploadedBy = user.userId

\* Image.deleteOne({ imageId })
DeleteOneImage(imageId) == {i \in images : i.imageId # imageId}

\* cloudinary.uploader.destroy(publicId): removes the object, or throws (caught and
\* logged by the handler).
Destroy(publicId, destroyed) ==
    IF destroyed THEN {o \in cloud : o.public_id # publicId} ELSE cloud

\* DELETE /albums/:albumId/images/:imageId
DeleteImage(user, albumId, imageId, destroyed) ==
    /\ UNCHANGED <<albums, now, nextAlbum, nextImage>>
    /\ IF FindAlbum(albumId) = {}
       THEN /\ res' = Response("deleteImage", user, albumId, imageId, Undefined, 404, NoBody)
            /\ UNCHANGED <<images, cloud>>
       ELSE \E album \in FindAlbum(albumId) :
              IF FindImage(imageId, albumId) = {}
              THEN /\ res' = Response("deleteImage", user, albumId, imageId, Undefined,
                                      404, NoBody)
                   /\ UNCHANGED <<images, cloud>>
              ELSE \E image \in FindImage(imageId, albumId) :
                     IF ~canDelete(album, image, user)
                     THEN /\ res' = Response("deleteImage", user, albumId, imageId, Undefined,
                                             403, NoBody)
                          /\ UNCHANGED <<images, cloud>>
                     ELSE /\ cloud' = Destroy(image.cloudinaryPublicId, destroyed)
                          /\ images' = DeleteOneImage(imageId)
                          /\ res' = Response("deleteImage", user, albumId, imageId, Undefined,
                                             200, NoBody)

\* GET /albums/:albumId/images/:imageId/url
GetImageUrl(user, albumId, imageId) ==
    /\ UNCHANGED <<albums, images, cloud, now, nextAlbum, nextImage>>
    /\ IF FindAlbum(albumId) = {}
       THEN res' = Response("getUrl", user, albumId, imageId, Undefined, 404, NoBody)
       ELSE \E album \in FindAlbum(albumId) :
              IF ~hasAccess(album, user)
              THEN res' = Response("getUrl", user, albumId, imageId, Undefined, 403, NoBody)
              ELSE IF FindImage(imageId, albumId) = {}
              THEN res' = Response("getUrl", user, albumId, imageId, Undefined, 404, NoBody)
              ELSE \E image \in FindImage(imageId, albumId) :
                     res' = Response("getUrl", user, albumId, imageId, Undefined, 200,
                                     [cloudinaryUrl |-> image.cloudinaryUrl,
                                      imageId |-> image.imageId, name |-> image.name])

(***************************************************************************)
(* Credential verification (verifyJWT), mounted in front of both routers.  *)
(***************************************************************************)
\* process.env.JWT_SECRET, and a key that is not it.
JwtSecret == "JWT_SECRET"
OtherKey == "other"

Day == 24 * 60 * 60 * 1000

\* expiresIn: '7d', in the seconds of the exp claim.
ExpiresIn == 7 * 24 * 60 * 60

\* jwt.sign({ email, userId, ... }, key, { expiresIn: '7d' }) at the time issuedAt
\* (milliseconds): the claims with iat and exp in seconds, and the signing key.
JwtSign(user, key, issuedAt) ==
    [kind |-> "jwt",
     val |-> [payload |-> [userId |-> user.userId, email |-> user.email,
                           iat |-> issuedAt \div 1000,
                           exp |-> (issuedAt \div 1000) + ExpiresIn],
              key |-> key]]

\* Mutant of JwtVerify: the expiry is not looked at.
JwtVerifyNoExpiry(token) == token.kind = "jwt" /\ token.val.key = JwtSecret

\* jwt.verify(token, process.env.JWT_SECRET) does not throw: a well-formed token,
\* signed with the secret, whose exp is later than the clock (in seconds).
JwtVerify(token) ==
    /\ token.kind = "jwt"
    /\ token.val.key = JwtSecret
    /\ now \div 1000 < token.val.payload.exp

\* The Authorization header: undefined, or its fields between single spaces.
Header(fields) == [kind |-> "header", val |-> fields]

\* req.headers.authorization?.split(' ')[1]
SplitSecond(authorization) ==
    IF authorization.kind = "undefined" THEN Undefined
    ELSE IF Len(authorization.val) >= 2 THEN authorization.val[2]
    ELSE Undefined

\* !value of a cookie or header field: undefined or ''.
IsFalsy(value) ==
    value.kind = "undefined" \/ (value.kind = "string" /\ value.val = <<>>)

\* req.cookies.jwt_token || req.headers.authorization?.split(' ')[1]
TokenOf(cookie, authorization) ==
    IF ~IsFalsy(cookie) THEN cookie ELSE SplitSecond(authorization)

\* verifyJWT calls next(): there is a token and it verifies.
Passes(cookie, authorization) ==
    /\ ~IsFalsy(TokenOf(cookie, authorization))
    /\ JwtVerify(TokenOf(cookie, authorization))

\* req.user = decoded
Decoded(cookie, authorization) == TokenOf(cookie, authorization).val.payload

\* verifyJWT answers 401 itself and no handler runs.
Unauthorized(cookie, authorization) ==
    /\ res' = Response("verifyJWT", Undefined, 0, 0, Undefined, 401,
                       IF IsFalsy(TokenOf(cookie, authorization))
                       THEN "No token provided" ELSE "Invalid or expired token")
    /\ UNCHANGED <<albums, images, cloud, now, nextAlbum, nextImage>>

\* A request arrives with this cookie and this Authorization header.
Receive(cookie, authorization) ==
    /\ req' = [cookie |-> cookie, authorization |-> authorization]
    /\ UNCHANGED calls

(***************************************************************************)
(* Handlers in steps.  An async handler gives up control at each await, so *)
(* the handlers of several requests interleave between their database and  *)
(* media-host operations.  A call in flight is kept in calls with the      *)
(* place it has reached (pc) and what it holds in memory (doc); one step   *)
(* is one awaited operation together with the code that follows it up to   *)
(* the next await.                                                         *)
(***************************************************************************)
Call(id, op, pc, user, albumId, imageId, arg, doc) ==
    [id |-> id, op |-> op, pc |-> pc, user |-> user, albumId |-> albumId,
     imageId |-> imageId, arg |-> arg, doc |-> doc]

\* The calls that have reached this await of this handler.
At(op, pc) == {c \in calls : c.op = op /\ c.pc = pc}

\* The handler goes on to its next await.
Await(c, pc, doc) == calls' = (calls \ {c}) \cup {[c EXCEPT !.pc = pc, !.doc = doc]}

\* The handler has answered.
Return(c) == calls' = calls \ {c}

\* POST /albums/:albumId/images up to its second await: the upload boundary,
\* Album.findOne and the access check.
UploadFindAlbum(id, user, albumId, file, tags, person, isFavorite) ==
    /\ UNCHANGED <<albums, images, cloud, now, nextAlbum, nextImage, req>>
    /\ IF MulterRejects(file)
       THEN /\ res' = Response("upload", user, albumId, 0, UploadArg(file, GatewayNotCalled),
                               500, NoBody)
            /\ UNCHANGED calls
       ELSE IF file.kind = "undefined"
       THEN /\ res' = Response("upload", user, albumId, 0, UploadArg(file, GatewayNotCalled),
                               400, NoBody)
            /\ UNCHANGED calls
       ELSE IF FindAlbum(albumId) = {}
       THEN /\ res' = Response("upload", user, albumId, 0, UploadArg(file, GatewayNotCalled),
                               404, NoBody)
            /\ UNCHANGED calls
       ELSE \E album \in FindAlbum(albumId) :
              IF ~hasAccess(album, user)
              THEN /\ res' = Response("upload", user, albumId, 0,
                                      UploadArg(file, GatewayNotCalled), 403, NoBody)
                   /\ UNCHANGED calls
              ELSE /\ calls' = calls \cup
                         {Call(id, "upload", "uploadToCloudinary", user, albumId, 0,
                               [file |-> file, tags |-> tags, person |-> person,
                                isFavorite |-> isFavorite], album)}
                   /\ UNCHANGED res

\* await uploadToCloudinary(...), then new Image({...}) up to image.save().
UploadToCloudinary(c, gateway) ==
    /\ c \in At("upload", "uploadToCloudinary")
    /\ UNCHANGED <<albums, images, now, nextAlbum, req>>
    /\ IF gateway.kind = "fail"
       THEN /\ res' = Response("upload", c.user, c.albumId, 0,
                               UploadArg(c.arg.file, gateway), 500, NoBody)
            /\ Return(c)
            /\ UNCHANGED <<cloud, nextImage>>
       ELSE /\ cloud' = cloud \cup {gateway}
            /\ nextImage' = nextImage + 1
            /\ Await(c, "save",
                     NewImage(nextImage, c.albumId, c.arg.file, gateway, c.arg.tags,
                              c.arg.person, c.arg.isFavorite, c.user))
            /\ UNCHANGED res

\* await image.save() of the new record, and the 201 answer.
UploadSave(c) ==
    /\ c \in At("upload", "save")
    /\ UNCHANGED <<albums, cloud, now, nextAlbum, nextImage, req>>
    /\ images' = images \cup {c.doc}
    /\ res' = Response("upload", c.user, c.albumId, c.doc.imageId,
                       UploadArg(c.arg.file,
                                 [kind |-> "ok", public_id |-> c.doc.cloudinaryPublicId,
                                  secure_url |-> c.doc.cloudinaryUrl,
                                  bytes |-> c.doc.size]),
                       201, NoBody)
    /\ Return(c)

\* DELETE /albums/:albumId up to its second await: Album.findOne and the owner check.
DeleteFindAlbum(id, user, albumId) ==
    /\ UNCHANGED <<albums, images, cloud, now, nextAlbum, nextImage, req>>
    /\ IF FindAlbum(albumId) = {}
       THEN /\ res' = Response("deleteAlbum", user, albumId, 0, Undefined, 404, NoBody)
            /\ UNCHANGED calls
       ELSE \E album \in FindAlbum(albumId) :
              IF ~isOwner(album, user)
              THEN /\ res' = Response("deleteAlbum", user, albumId, 0, Undefined, 403, NoBody)
                   /\ UNCHANGED calls
              ELSE /\ calls' = calls \cup
                         {Call(id, "deleteAlbum", "deleteMany", user, albumId, 0,
                               Undefined, album)}
                   /\ UNCHANGED res

\* await Image.deleteMany({ albumId })
DeleteMany(c) ==
    /\ c \in At("deleteAlbum", "deleteMany")
    /\ UNCHANGED <<albums, cloud, now, nextAlbum, nextImage, res, req>>
    /\ images' = DeleteManyImages(c.albumId)
    /\ Await(c, "deleteOne", c.doc)

\* await Album.deleteOne({ albumId }), and the answer.
DeleteOne(c) ==
    /\ c \in At("deleteAlbum", "deleteOne")
    /\ UNCHANGED <<images, cloud, now, nextAlbum, nextImage, req>>
    /\ albums' = DeleteOneAlbum(c.albumId)
    /\ res' = Response("deleteAlbum", c.user, c.albumId, 0, Undefined, 200, NoBody)
    /\ Return(c)

(***************************************************************************)
(* Writers in steps.  A handler loads a document, changes it in memory and *)
(* awaits save(); save() sends the changes made to the loaded copy, not    *)
(* the copy: an assignment that changed a path as a set of that path, the  *)
(* elements pushed on an array as a push of those elements.  Nothing is    *)
(* compared with the stored document.                                      *)
(***************************************************************************)
\* A loaded document and the copy the handler has changed.
Loaded(loaded, held) == [loaded |-> loaded, held |-> held]

\* The elements pushed on an array since it was loaded.
Pushed(loadedArr, heldArr) == SubSeq(heldArr, Len(loadedArr) + 1, Len(heldArr))

\* The answer of save(): when the stored document is gone it changes nothing, and
\* rejects or resolves.
SaveStatus(found) == IF found THEN {200} ELSE {200, 500}

\* image.save() after image.isFavorite = ...
SaveFavorite(doc) ==
    {IF i.imageId = doc.held.imageId /\ doc.held.isFavorite # doc.loaded.isFavorite
     THEN [i EXCEPT !.isFavorite = doc.held.isFavorite] ELSE i : i \in images}

\* Mutant of SaveComments: the held array replaces the stored one.
SaveCommentsWhole(doc) ==
    {IF i.imageId = doc.held.imageId
     THEN [i EXCEPT !.comments = doc.held.comments] ELSE i : i \in images}

\* image.save() after image.comments.push(...)
SaveComments(doc) ==
    {IF i.imageId = doc.held.imageId
     THEN [i EXCEPT !.comments = @ \o Pushed(doc.loaded.comments, doc.held.comments)]
     ELSE i : i \in images}

\* album.save() after album.sharedWith.push(...)
SaveSharedWith(doc) ==
    {IF a.albumId = doc.held.albumId
     THEN [a EXCEPT !.sharedWith = @ \o Pushed(doc.loaded.sharedWith, doc.held.sharedWith)]
     ELSE a : a \in albums}

\* PUT .../favorite up to its second await: Album.findOne and the access check.
FavoriteFindAlbum(id, user, albumId, imageId, isFavorite) ==
    /\ UNCHANGED <<albums, images, cloud, now, nextAlbum, nextImage, req>>
    /\ IF FindAlbum(albumId) = {}
       THEN /\ res' = Response("setFavorite", user, albumId, imageId, isFavorite, 404, NoBody)
            /\ UNCHANGED calls
       ELSE \E album \in FindAlbum(albumId) :
              IF ~hasAccess(album, user)
              THEN /\ res' = Response("setFavorite", user, albumId, imageId, isFavorite,
                                      403, NoBody)
                   /\ UNCHANGED calls
              ELSE /\ calls' = calls \cup
                         {Call(id, "setFavorite", "findImage", user, albumId, imageId,
                               isFavorite, album)}
                   /\ UNCHANGED res

\* await Image.findOne({ imageId, albumId }), then image.isFavorite = ...
FavoriteFindImage(c) ==
    /\ c \in At("setFavorite", "findImage")
    /\ UNCHANGED <<albums, images, cloud, now, nextAlbum, nextImage, req>>
    /\ IF FindImage(c.imageId, c.albumId) = {}
       THEN /\ res' = Response("setFavorite", c.user, c.albumId, c.imageId, c.arg,
                               404, NoBody)
            /\ Return(c)
       ELSE \E image \in FindImage(c.imageId, c.albumId) :
              /\ Await(c, "save",
                       Loaded(image, [image EXCEPT !.isFavorite = NextFavorite(image, c.arg)]))
              /\ UNCHANGED res

\* await image.save(), and the answer.
FavoriteSave(c) ==
    /\ c \in At("setFavorite", "save")
    /\ UNCHANGED <<albums, cloud, now, nextAlbum, nextImage, req>>
    /\ images' = SaveFavorite(c.doc)
    /\ \E status \in SaveStatus(\E i \in images : i.imageId = c.doc.held.imageId) :
          res' = Response("setFavorite", c.user, c.albumId, c.imageId, c.arg, status,
                          IF status = 200 THEN c.doc.held.isFavorite ELSE NoBody)
    /\ Return(c)

\* POST .../comments up to its second await: the comment check, Album.findOne and
\* the access check.
CommentFindAlbum(id, user, albumId, imageId, comment) ==
    /\ UNCHANGED <<albums, images, cloud, now, nextAlbum, nextImage, req>>
    /\ IF CommentIsEmpty(comment)
       THEN /\ res' = Response("addComment", user, albumId, imageId, comment, 400, NoBody)
            /\ UNCHANGED calls
       ELSE IF comment.kind # "string"
       THEN /\ res' = Response("addComment", user, albumId, imageId, comment, 500, NoBody)
            /\ UNCHANGED calls
       ELSE IF FindAlbum(albumId) = {}
       THEN /\ res' = Response("addComment", user, albumId, imageId, comment, 404, NoBody)
            /\ UNCHANGED calls
       ELSE \E album \in FindAlbum(albumId) :
              IF ~hasAccess(album, user)
              THEN /\ res' = Response("addComment", user, albumId, imageId, comment,
                                      403, NoBody)
                   /\ UNCHANGED calls
              ELSE /\ calls' = calls \cup
                         {Call(id, "addComment", "findImage", user, albumId, imageId,
                               comment, album)}
                   /\ UNCHANGED res

\* await Image.findOne({ imageId, albumId }), then image.comments.push(...)
CommentFindImage(c) ==
    /\ c \in At("addComment", "findImage")
    /\ UNCHANGED <<albums, images, cloud, now, nextAlbum, nextImage, req>>
    /\ IF FindImage(c.imageId, c.albumId) = {}
       THEN /\ res' = Response("addComment", c.user, c.albumId, c.imageId, c.arg,
                               404, NoBody)
            /\ Return(c)
       ELSE \E image \in FindImage(c.imageId, c.albumId) :
              /\ Await(c, "save", Loaded(image, PushComment(image, c.user, c.arg)))
              /\ UNCHANGED res

\* await image.save(), and the answer.
CommentSave(c) ==
    /\ c \in At("addComment", "save")
    /\ UNCHANGED <<albums, cloud, now, nextAlbum, nextImage, req>>
    /\ images' = SaveComments(c.doc)
    /\ \E status \in SaveStatus(\E i \in images : i.imageId = c.doc.held.imageId) :
          res' = Response("addComment", c.user, c.albumId, c.imageId, c.arg, status,
                          IF status = 200 THEN c.doc.held.comments ELSE NoBody)
    /\ Return(c)

\* POST /albums/:albumId/share up to album.save(): the emails check, Album.findOne,
\* the owner check, the filter and the pushes.
ShareFindAlbum(id, user, albumId, emails) ==
    /\ UNCHANGED <<albums, images, cloud, now, nextAlbum, nextImage, req>>
    /\ IF emails.kind # "array" \/ Len(emails.val) = 0
       THEN /\ res' = Response("share", user, albumId, 0, emails, 400, NoBody)
            /\ UNCHANGED calls
       ELSE IF FindAlbum(albumId) = {}
       THEN /\ res' = Response("share", user, albumId, 0, emails, 404, NoBody)
            /\ UNCHANGED calls
       ELSE \E album \in FindAlbum(albumId) :
              IF ~isOwner(album, user)
              THEN /\ res' = Response("share", user, albumId, 0, emails, 403, NoBody)
                   /\ UNCHANGED calls
              ELSE IF Len(Filter(emails.val)) = 0
              THEN /\ res' = Response("share", user, albumId, 0, emails, 400, NoBody)
                   /\ UNCHANGED calls
              ELSE /\ calls' = calls \cup
                         {Call(id, "share", "save", user, albumId, 0, emails,
                               Loaded(album,
                                      [album EXCEPT !.sharedWith =
                                          AddEmails(@, album.ownerEmail,
                                                    Filter(emails.val))]))}
                   /\ UNCHANGED res

\* await album.save(), and the answer.
ShareSave(c) ==
    /\ c \in At("share", "save")
    /\ UNCHANGED <<images, cloud, now, nextAlbum, nextImage, req>>
    /\ albums' = SaveSharedWith(c.doc)
    /\ \E status \in SaveStatus(\E a \in albums : a.albumId = c.doc.held.albumId) :
          res' = Response("share", c.user, c.albumId, 0, c.arg, status,
                          IF status = 200 THEN c.doc.held.sharedWith ELSE NoBody)
    /\ Return(c)

(***************************************************************************)
(* Input pools of the specifications.                                      *)
(***************************************************************************)
AlbumName == Str(<<"T">>)
Names == {Undefined, AlbumName}
Descriptions == {Undefined, Str(<<"d">>)}

Emails(list) == [kind |-> "array", val |-> list]
EmailLists ==
    {Undefined, Emails(<<>>), Emails(<<EmailSpace, EmailNoDot>>),
     Emails(<<EmailNoAt, EmailB>>), Emails(<<EmailA, EmailB>>),
     Emails(<<EmailB, EmailB>>)}

MimePng == <<"i", "m", "a", "g", "e", "/", "p", "n", "g">>
MimeText == <<"t", "e", "x", "t", "/", "p", "l", "a", "i", "n">>
FileName == <<"f">>
FilePng == File(FileName, MimePng, FileSizeLimit)
Files ==
    {NoFile, FilePng, File(FileName, MimePng, FileSizeLimit + 1),
     File(FileName, MimeText, 1)}

Favorites == {Undefined, Bool(TRUE), Bool(FALSE)}

CommentText == Str(<<"h">>)
Comments ==
    {Undefined, NonStr, Str(<<>>), Str(<<" ">>), CommentText, Str(<<" ", "i", " ">>)}

\* The ids a request may name: those of the albums and images the specification can
\* create, and one more that is never stored.
AlbumIds == 1..(MaxAlbums + 1)
ImageAlbumIds == 1..(MaxImageAlbums + 1)
AlbumImageIds == 1..(MaxAlbumImages + 1)

(***************************************************************************)
(* SpecAlbums: the album routes alone, every principal and every email     *)
(* list of the pool.                                                       *)
(***************************************************************************)
TickBounded == now < MaxTime /\ Tick

CreateAlbumAny ==
    /\ UNCHANGED <<req, calls>>
    /\ nextAlbum <= MaxAlbums
    /\ \E user \in Principals, name \in Names, description \in Descriptions :
          CreateAlbum(user, name, description)

ListAlbumsAny ==
    /\ UNCHANGED <<req, calls>>
    /\ \E user \in Principals : ListAlbums(user)

GetAlbumAny ==
    /\ UNCHANGED <<req, calls>>
    /\ \E user \in Principals, albumId \in AlbumIds : GetAlbum(user, albumId)

UpdateDescriptionAny ==
    /\ UNCHANGED <<req, calls>>
    /\ \E user \in Principals, albumId \in AlbumIds, description \in Descriptions :
       UpdateDescription(user, albumId, description)

ShareAlbumAny ==
    /\ UNCHANGED <<req, calls>>
    /\ \E user \in Principals, albumId \in AlbumIds, emails \in EmailLists :
       ShareAlbum(user, albumId, emails)

DeleteAlbumAny ==
    /\ UNCHANGED <<req, calls>>
    /\ \E user \in Principals, albumId \in AlbumIds : DeleteAlbum(user, albumId)

NextAlbums ==
    \/ TickBounded
    \/ CreateAlbumAny
    \/ ListAlbumsAny
    \/ GetAlbumAny
    \/ UpdateDescriptionAny
    \/ ShareAlbumAny
    \/ DeleteAlbumAny

SpecAlbums == Init /\ [][NextAlbums]_vars

(***************************************************************************)
(* SpecOwner: the album routes with images in the albums: every principal  *)
(* creates, shares, edits and deletes albums and uploads accepted files.   *)
(***************************************************************************)
OwnerEmailLists == {Undefined, Emails(<<EmailB>>)}

CreateAlbumNamed ==
    /\ UNCHANGED <<req, calls>>
    /\ nextAlbum <= MaxAlbums
    /\ \E user \in Principals : CreateAlbum(user, AlbumName, Undefined)

ShareAlbumOwner ==
    /\ UNCHANGED <<req, calls>>
    /\ \E user \in Principals, albumId \in AlbumIds, emails \in OwnerEmailLists :
       ShareAlbum(user, albumId, emails)

UploadImageStored ==
    /\ UNCHANGED <<req, calls>>
    /\ nextImage <= MaxImages
    /\ \E user \in Principals, albumId \in AlbumIds :
          UploadImage(user, albumId, FilePng, Undefined, Undefined, Undefined,
                      GatewayStores(albumId, nextImage, FilePng.size))

NextOwner ==
    \/ CreateAlbumNamed
    \/ GetAlbumAny
    \/ UpdateDescriptionAny
    \/ ShareAlbumOwner
    \/ DeleteAlbumAny
    \/ UploadImageStored

SpecOwner == Init /\ [][NextOwner]_vars

(***************************************************************************)
(* SpecAccess: one album of any principal, shared with either of two       *)
(* emails, and every image route by every principal.                       *)
(***************************************************************************)
MemberEmailLists == {Emails(<<EmailB>>), Emails(<<EmailC>>)}
AccessFiles == {NoFile, FilePng}
AccessComments == {Str(<<>>), CommentText}
TagS == <<"s">>
AccessTags == {TagsMalformed, TagsArray(<<>>), TagsJson(<<TagS>>)}
\* No tags query, and the query " s,n".
TagQueries == {Undefined, Str(<<<<" ", "s">>, <<"n">>>>)}

CreateAlbumOne ==
    /\ UNCHANGED <<req, calls>>
    /\ nextAlbum <= MaxImageAlbums
    /\ \E user \in Principals : CreateAlbum(user, AlbumName, Undefined)

ShareAlbumMembers ==
    /\ UNCHANGED <<req, calls>>
    /\ \E user \in Principals, albumId \in ImageAlbumIds, emails \in MemberEmailLists :
       ShareAlbum(user, albumId, emails)

GetAlbumOne ==
    /\ UNCHANGED <<req, calls>>
    /\ \E user \in Principals, albumId \in ImageAlbumIds : GetAlbum(user, albumId)

UploadImageAccess ==
    /\ UNCHANGED <<req, calls>>
    /\ nextImage <= MaxAlbumImages
    /\ \E user \in Principals, albumId \in ImageAlbumIds, file \in AccessFiles,
          tags \in AccessTags :
          UploadImage(user, albumId, file, tags, Undefined, Undefined,
                      GatewayStores(albumId, nextImage, file.size))

ListImagesAny ==
    /\ UNCHANGED <<req, calls>>
    /\ \E user \in Principals, albumId \in ImageAlbumIds, tags \in TagQueries :
       ListImages(user, albumId, tags)

ListFavoritesAny ==
    /\ UNCHANGED <<req, calls>>
    /\ \E user \in Principals, albumId \in ImageAlbumIds : ListFavorites(user, albumId)

ToggleFavoriteAny ==
    /\ UNCHANGED <<req, calls>>
    /\ \E user \in Principals, albumId \in ImageAlbumIds, imageId \in AlbumImageIds :
       SetFavorite(user, albumId, imageId, Undefined)

\* The image the request names has room for one more comment.
CommentsBelow(albumId, imageId, max) ==
    \A i \in FindImage(imageId, albumId) : Len(i.comments) < max

AddCommentAccess ==
    /\ UNCHANGED <<req, calls>>
    /\ \E user \in Principals, albumId \in ImageAlbumIds, imageId \in AlbumImageIds,
       comment \in AccessComments :
          /\ CommentsBelow(albumId, imageId, MaxComments)
          /\ AddComment(user, albumId, imageId, comment)

DeleteImageAny ==
    /\ UNCHANGED <<req, calls>>
    /\ \E user \in Principals, albumId \in ImageAlbumIds, imageId \in AlbumImageIds,
       destroyed \in BOOLEAN : DeleteImage(user, albumId, imageId, destroyed)

GetImageUrlAny ==
    /\ UNCHANGED <<req, calls>>
    /\ \E user \in Principals, albumId \in ImageAlbumIds, imageId \in AlbumImageIds :
       GetImageUrl(user, albumId, imageId)

NextAccess ==
    \/ CreateAlbumOne
    \/ ShareAlbumMembers
    \/ GetAlbumOne
    \/ UploadImageAccess
    \/ ListImagesAny
    \/ ListFavoritesAny
    \/ ToggleFavoriteAny
    \/ AddCommentAccess
    \/ DeleteImageAny
    \/ GetImageUrlAny

SpecAccess == Init /\ [][NextAccess]_vars

(***************************************************************************)
(* SpecImages: one album, shared with one email, and the routes that write *)
(* image records, with every file, media-host answer, favorite value and   *)
(* comment of the pools.                                                   *)
(***************************************************************************)
\* What the media host may answer: a failure, or a stored object of the size of the
\* uploaded buffer or of another size.
Gateways(albumId, file) ==
    {GatewayFails, GatewayStores(albumId, nextImage, file.size),
     GatewayStores(albumId, nextImage, file.size - 1)}

UploadFavorites == {Undefined, Str(StrTrue)}

ShareAlbumB ==
    /\ UNCHANGED <<req, calls>>
    /\ \E user \in Principals, albumId \in ImageAlbumIds :
       ShareAlbum(user, albumId, Emails(<<EmailB>>))

UploadImageAny ==
    /\ UNCHANGED <<req, calls>>
    /\ nextImage <= MaxAlbumImages
    /\ \E user \in Principals, albumId \in ImageAlbumIds, file \in Files,
          isFavorite \in UploadFavorites :
          \E gateway \in Gateways(albumId, file) :
             UploadImage(user, albumId, file, Undefined, Undefined, isFavorite, gateway)

SetFavoriteAny ==
    /\ UNCHANGED <<req, calls>>
    /\ \E user \in Principals, albumId \in ImageAlbumIds, imageId \in AlbumImageIds,
       isFavorite \in Favorites : SetFavorite(user, albumId, imageId, isFavorite)

AddCommentAny ==
    /\ UNCHANGED <<req, calls>>
    /\ \E user \in Principals, albumId \in ImageAlbumIds, imageId \in AlbumImageIds,
       comment \in Comments :
          /\ CommentsBelow(albumId, imageId, MaxComments)
          /\ AddComment(user, albumId, imageId, comment)

DeleteImageDestroyed ==
    /\ UNCHANGED <<req, calls>>
    /\ \E user \in Principals, albumId \in ImageAlbumIds, imageId \in AlbumImageIds :
       DeleteImage(user, albumId, imageId, TRUE)

DeleteAlbumOne ==
    /\ UNCHANGED <<req, calls>>
    /\ \E user \in Principals, albumId \in ImageAlbumIds : DeleteAlbum(user, albumId)

NextImages ==
    \/ CreateAlbumOne
    \/ ShareAlbumB
    \/ UploadImageAny
    \/ SetFavoriteAny
    \/ AddCommentAny
    \/ DeleteImageDestroyed
    \/ DeleteAlbumOne

SpecImages == Init /\ [][NextImages]_vars

(***************************************************************************)
(* SpecAuth: every route behind verifyJWT, with cookies and Authorization  *)
(* headers that are absent, empty, forged, genuine, and genuine but        *)
(* expired once the clock has run past seven days.                         *)
(***************************************************************************)
\* The clock is looked at every four days.
ClockStep == 4 * Day

Bearer == Str(<<"Bearer">>)
Basic == Str(<<"Basic">>)

Cookies == {Undefined, Str(<<>>), JwtSign(P1, JwtSecret, 0), JwtSign(P1, OtherKey, 0)}

AuthHeaders ==
    {Undefined, Header(<<Bearer>>), Header(<<Bearer, Str(<<"x">>)>>),
     Header(<<Bearer, JwtSign(P2, JwtSecret, 0)>>),
     Header(<<Bearer, JwtSign(P2, JwtSecret, ClockStep)>>),
     Header(<<Basic, JwtSign(P2, JwtSecret, 0)>>)}

\* A token signed with the secret was issued by the server, not later than now.
Issued(token) ==
    (token.kind = "jwt" /\ token.val.key = JwtSecret)
        => token.val.payload.iat * 1000 <= now

\* The requests that can arrive now.
Arrivals ==
    {r \in Cookies \X AuthHeaders : Issued(r[1]) /\ Issued(SplitSecond(r[2]))}

TickDays ==
    /\ now + ClockStep <= MaxDays * Day
    /\ now' = now + ClockStep
    /\ UNCHANGED <<albums, images, cloud, nextAlbum, nextImage, res, req, calls>>

AuthCreateAlbum ==
    /\ nextAlbum <= MaxImageAlbums
    /\ \E r \in Arrivals :
          /\ Receive(r[1], r[2])
          /\ IF Passes(r[1], r[2])
             THEN CreateAlbum(Decoded(r[1], r[2]), AlbumName, Undefined)
             ELSE Unauthorized(r[1], r[2])

AuthListAlbums ==
    \E r \in Arrivals :
       /\ Receive(r[1], r[2])
       /\ IF Passes(r[1], r[2])
          THEN ListAlbums(Decoded(r[1], r[2]))
          ELSE Unauthorized(r[1], r[2])

AuthGetAlbum ==
    \E r \in Arrivals :
       /\ Receive(r[1], r[2])
       /\ IF Passes(r[1], r[2])
          THEN GetAlbum(Decoded(r[1], r[2]), 1)
          ELSE Unauthorized(r[1], r[2])

AuthUpdateDescription ==
    \E r \in Arrivals :
       /\ Receive(r[1], r[2])
       /\ IF Passes(r[1], r[2])
          THEN UpdateDescription(Decoded(r[1], r[2]), 1, Str(<<"d">>))
          ELSE Unauthorized(r[1], r[2])

AuthShareAlbum ==
    \E r \in Arrivals :
       /\ Receive(r[1], r[2])
       /\ IF Passes(r[1], r[2])
          THEN ShareAlbum(Decoded(r[1], r[2]), 1, Emails(<<EmailB>>))
          ELSE Unauthorized(r[1], r[2])

AuthDeleteAlbum ==
    \E r \in Arrivals :
       /\ Receive(r[1], r[2])
       /\ IF Passes(r[1], r[2])
          THEN DeleteAlbum(Decoded(r[1], r[2]), 1)
          ELSE Unauthorized(r[1], r[2])

AuthUploadImage ==
    /\ nextImage <= MaxAlbumImages
    /\ \E r \in Arrivals :
          /\ Receive(r[1], r[2])
          /\ IF Passes(r[1], r[2])
             THEN UploadImage(Decoded(r[1], r[2]), 1, FilePng, Undefined, Undefined,
                              Undefined, GatewayStores(1, nextImage, FilePng.size))
             ELSE Unauthorized(r[1], r[2])

AuthListImages ==
    \E r \in Arrivals :
       /\ Receive(r[1], r[2])
       /\ IF Passes(r[1], r[2])
          THEN ListImages(Decoded(r[1], r[2]), 1, Undefined)
          ELSE Unauthorized(r[1], r[2])

AuthListFavorites ==
    \E r \in Arrivals :
       /\ Receive(r[1], r[2])
       /\ IF Passes(r[1], r[2])
          THEN ListFavorites(Decoded(r[1], r[2]), 1)
          ELSE Unauthorized(r[1], r[2])

AuthSetFavorite ==
    \E r \in Arrivals :
       /\ Receive(r[1], r[2])
       /\ IF Passes(r[1], r[2])
          THEN SetFavorite(Decoded(r[1], r[2]), 1, 1, Undefined)
          ELSE Unauthorized(r[1], r[2])

AuthAddComment ==
    \E r \in Arrivals :
       /\ CommentsBelow(1, 1, 1)
       /\ Receive(r[1], r[2])
       /\ IF Passes(r[1], r[2])
          THEN AddComment(Decoded(r[1], r[2]), 1, 1, CommentText)
          ELSE Unauthorized(r[1], r[2])

AuthDeleteImage ==
    \E r \in Arrivals :
       /\ Receive(r[1], r[2])
       /\ IF Passes(r[1], r[2])
          THEN DeleteImage(Decoded(r[1], r[2]), 1, 1, TRUE)
          ELSE Unauthorized(r[1], r[2])

AuthGetImageUrl ==
    \E r \in Arrivals :
       /\ Receive(r[1], r[2])
       /\ IF Passes(r[1], r[2])
          THEN GetImageUrl(Decoded(r[1], r[2]), 1, 1)
          ELSE Unauthorized(r[1], r[2])

NextAuth ==
    \/ TickDays
    \/ AuthCreateAlbum
    \/ AuthListAlbums
    \/ AuthGetAlbum
    \/ AuthUpdateDescription
    \/ AuthShareAlbum
    \/ AuthDeleteAlbum
    \/ AuthUploadImage
    \/ AuthListImages
    \/ AuthListFavorites
    \/ AuthSetFavorite
    \/ AuthAddComment
    \/ AuthDeleteImage
    \/ AuthGetImageUrl

SpecAuth == Init /\ [][NextAuth]_vars

(***************************************************************************)
(* SpecRace: one album, and uploads and album deletions of two principals  *)
(* running step by step, up to MaxCalls of them in flight at once.         *)
(***************************************************************************)
RacePrincipals == {P1, P2}

\* The ids of the calls not in flight.
FreeIds == (1..MaxCalls) \ {c.id : c \in calls}

RaceCreateAlbum ==
    /\ UNCHANGED <<req, calls>>
    /\ nextAlbum <= MaxImageAlbums
    /\ CreateAlbum(P1, AlbumName, Undefined)

RaceShareAlbum ==
    /\ UNCHANGED <<req, calls>>
    /\ ShareAlbum(P1, 1, Emails(<<EmailB>>))

RaceUploadFindAlbum ==
    /\ FreeIds # {}
    /\ \E user \in RacePrincipals, file \in AccessFiles :
          UploadFindAlbum(CHOOSE id \in FreeIds : \A other \in FreeIds : id <= other,
                          user, 1, file, Undefined, Undefined, Undefined)

RaceUploadToCloudinary ==
    /\ nextImage <= MaxImages
    /\ \E c \in calls, stored \in BOOLEAN :
          UploadToCloudinary(c, IF stored
                                THEN GatewayStores(c.albumId, nextImage, FilePng.size)
                                ELSE GatewayFails)

RaceUploadSave == \E c \in calls : UploadSave(c)

RaceDeleteFindAlbum ==
    /\ FreeIds # {}
    /\ \E user \in RacePrincipals :
          DeleteFindAlbum(CHOOSE id \in FreeIds : \A other \in FreeIds : id <= other,
                          user, 1)

RaceDeleteMany == \E c \in calls : DeleteMany(c)

RaceDeleteOne == \E c \in calls : DeleteOne(c)

NextRace ==
    \/ RaceCreateAlbum
    \/ RaceShareAlbum
    \/ RaceUploadFindAlbum
    \/ RaceUploadToCloudinary
    \/ RaceUploadSave
    \/ RaceDeleteFindAlbum
    \/ RaceDeleteMany
    \/ RaceDeleteOne

SpecRace == Init /\ [][NextRace]_vars

(***************************************************************************)
(* SpecWriters: one album with one image, and setFavorite, addComment and  *)
(* share requests running step by step, up to MaxCalls of them in flight.  *)
(***************************************************************************)
WriterEmailLists == {Emails(<<EmailB>>), Emails(<<EmailC>>)}
WriterFavorites == {Undefined, Bool(TRUE)}

\* The lowest id of a call not in flight.
NewId == CHOOSE id \in FreeIds : \A other \in FreeIds : id <= other

WritersUploadImage ==
    /\ UNCHANGED <<req, calls>>
    /\ nextImage <= MaxAlbumImages
    /\ UploadImage(P1, 1, FilePng, Undefined, Undefined, Undefined,
                   GatewayStores(1, nextImage, FilePng.size))

WritersFavoriteFindAlbum ==
    /\ FreeIds # {}
    /\ \E user \in RacePrincipals, isFavorite \in WriterFavorites :
          FavoriteFindAlbum(NewId, user, 1, 1, isFavorite)

WritersFavoriteFindImage == \E c \in calls : FavoriteFindImage(c)

WritersFavoriteSave == \E c \in calls : FavoriteSave(c)

WritersCommentFindAlbum ==
    /\ FreeIds # {}
    /\ CommentsBelow(1, 1, MaxComments)
    /\ \E user \in RacePrincipals : CommentFindAlbum(NewId, user, 1, 1, CommentText)

WritersCommentFindImage == \E c \in calls : CommentFindImage(c)

WritersCommentSave == \E c \in calls : CommentSave(c)

WritersShareFindAlbum ==
    /\ FreeIds # {}
    /\ \A a \in albums : Len(a.sharedWith) < MaxComments
    /\ \E user \in RacePrincipals, emails \in WriterEmailLists :
          ShareFindAlbum(NewId, user, 1, emails)

WritersShareSave == \E c \in calls : ShareSave(c)

NextWriters ==
    \/ RaceCreateAlbum
    \/ WritersUploadImage
    \/ WritersFavoriteFindAlbum
    \/ WritersFavoriteFindImage
    \/ WritersFavoriteSave
    \/ WritersCommentFindAlbum
    \/ WritersCommentFindImage
    \/ WritersCommentSave
    \/ WritersShareFindAlbum
    \/ WritersShareSave

SpecWriters == Init /\ [][NextWriters]_vars

(***************************************************************************)
(* SpecScope: the first album is the first principal's, who may share it   *)
(* with the second; the later ones are the second principal's.  Both       *)
(* upload where they may, and both name every pairing of album and image   *)
(* id in the routes that name an image.                                    *)
(***************************************************************************)
\* The image ids a request may name: those stored, and one more.
ImageIds == 1..(MaxImages + 1)

ScopeComments == {Str(<<>>), NonStr, CommentText}

ScopeCreateAlbum ==
    /\ UNCHANGED <<req, calls>>
    /\ nextAlbum <= MaxAlbums
    /\ CreateAlbum(IF nextAlbum = 1 THEN P1 ELSE P2, AlbumName, Undefined)

ScopeShareAlbum ==
    /\ UNCHANGED <<req, calls>>
    /\ ShareAlbum(P1, 1, Emails(<<EmailB>>))

ScopeUploadImage ==
    /\ UNCHANGED <<req, calls>>
    /\ nextImage <= MaxImages
    /\ \E user \in RacePrincipals, albumId \in AlbumIds :
          UploadImage(user, albumId, FilePng, Undefined, Undefined, Undefined,
                      GatewayStores(albumId, nextImage, FilePng.size))

ScopeSetFavorite ==
    /\ UNCHANGED <<req, calls>>
    /\ \E user \in RacePrincipals, albumId \in AlbumIds, imageId \in ImageIds :
          SetFavorite(user, albumId, imageId, Undefined)

ScopeAddComment ==
    /\ UNCHANGED <<req, calls>>
    /\ \E user \in RacePrincipals, albumId \in AlbumIds, imageId \in ImageIds,
          comment \in ScopeComments :
          /\ CommentsBelow(albumId, imageId, 1)
          /\ AddComment(user, albumId, imageId, comment)

ScopeDeleteImage ==
    /\ UNCHANGED <<req, calls>>
    /\ \E user \in RacePrincipals, albumId \in AlbumIds, imageId \in ImageIds :
          DeleteImage(user, albumId, imageId, TRUE)

ScopeGetImageUrl ==
    /\ UNCHANGED <<req, calls>>
    /\ \E user \in RacePrincipals, albumId \in AlbumIds, imageId \in ImageIds :
          GetImageUrl(user, albumId, imageId)

NextScope ==
    \/ ScopeCreateAlbum
    \/ ScopeShareAlbum
    \/ ScopeUploadImage
    \/ ScopeSetFavorite
    \/ ScopeAddComment
    \/ ScopeDeleteImage
    \/ ScopeGetImageUrl

SpecScope == Init /\ [][NextScope]_vars

(***************************************************************************)
(* Vocabulary of the properties.                                           *)
(***************************************************************************)
NoDuplicates(arr) == \A i, j \in 1..Len(arr) : i # j => arr[i] # arr[j]

IsPrefix(a, b) == Len(a) <= Len(b) /\ SubSeq(b, 1, Len(a)) = a

\* The stored album with this id (the request's album, when it exists).
AlbumOf(albumId) == CHOOSE a \in albums : a.albumId = albumId

AlbumExists(albumId) == \E a \in albums : a.albumId = albumId

\* This step answers a request of this kind (every step but Tick answers one).
Answered(op) == now' = now /\ res'.op = op

(***************************************************************************)
(* C1: in every reachable state no stored album has its owner's email in   *)
(* its sharedWith list.                                                    *)
(***************************************************************************)
\* C1: no stored album lists its owner's email in sharedWith.
C1_OwnerNotShared == \A a \in albums : a.ownerEmail \notin SeqToSet(a.sharedWith)

\* The owner shared a list holding the owner's own email, and the share succeeded.
C1_Witness ==
    /\ res.op = "share" /\ res.status = 200
    /\ AlbumExists(res.albumId)
    /\ AlbumOf(res.albumId).ownerEmail \in SeqToSet(res.arg.val)
    /\ AlbumOf(res.albumId).sharedWith # <<>>

(***************************************************************************)
(* C6: a successful share only adds: the stored list stays a prefix, what  *)
(* is added is exactly the valid emails of the request that are neither    *)
(* present nor the owner's, each once; no sharedWith list ever holds a     *)
(* duplicate; and a share that repeats the share answered just before it   *)
(* (same album, same emails) changes nothing.                              *)
(***************************************************************************)
ValidEmailsOf(arg) == {e \in SeqToSet(arg.val) : emailRegexTest(e)}

C6_ShareStep ==
    (Answered("share") /\ res'.status = 200) =>
        LET before == AlbumOf(res'.albumId)
            after == CHOOSE a \in albums' : a.albumId = res'.albumId
        IN /\ IsPrefix(before.sharedWith, after.sharedWith)
           /\ SeqToSet(after.sharedWith) =
                 SeqToSet(before.sharedWith) \cup
                    (ValidEmailsOf(res'.arg) \ {before.ownerEmail})
           /\ NoDuplicates(after.sharedWith)
           /\ (ValidEmailsOf(res'.arg) \subseteq
                  SeqToSet(before.sharedWith) \cup {before.ownerEmail}
               => albums' = albums)
           /\ (res.op = "share" /\ res.status = 200 /\ res.albumId = res'.albumId
                  /\ res.arg = res'.arg
               => albums' = albums)

\* C6: every step keeps sharedWith free of duplicates, and a share step is an
\* idempotent add.
C6_ShareIdempotent ==
    [][C6_ShareStep /\ \A a \in albums' : NoDuplicates(a.sharedWith)]_vars

\* A share whose list repeats an email succeeded and stored it once.
C6_Witness ==
    /\ res.op = "share" /\ res.status = 200
    /\ res.arg = Emails(<<EmailB, EmailB>>)
    /\ AlbumExists(res.albumId)
    /\ AlbumOf(res.albumId).sharedWith = <<EmailB>>

(***************************************************************************)
(* C7: the answer of list(principal) holds every stored album the          *)
(* principal owns or is shared on, no other album, each once, in           *)
(* non-increasing createdAt order.                                         *)
(***************************************************************************)
\* C7: the last list answer is exactly the principal's albums, newest first.
C7_ListExact ==
    res.op = "listAlbums" =>
        /\ res.status = 200
        /\ SeqToSet(res.body) =
              {a.albumId : a \in {b \in albums :
                  b.ownerId = res.user.userId \/ res.user.email \in SeqToSet(b.sharedWith)}}
        /\ NoDuplicates(res.body)
        /\ \A i, j \in 1..Len(res.body) :
              i < j => AlbumOf(res.body[i]).createdAt >= AlbumOf(res.body[j]).createdAt

\* A principal lists two albums, the newer one first, one of them shared with them by
\* another owner.
C7_Witness ==
    /\ res.op = "listAlbums"
    /\ Len(res.body) = 2
    /\ AlbumOf(res.body[1]).createdAt > AlbumOf(res.body[2]).createdAt
    /\ \E i \in 1..2 :
          /\ AlbumOf(res.body[i]).ownerId # res.user.userId
          /\ res.user.email \in SeqToSet(AlbumOf(res.body[i]).sharedWith)

(***************************************************************************)
(* C3 as stated: updateDescription, share and delete by a principal who is *)
(* not the album's owner are answered 403 and change nothing.              *)
(***************************************************************************)
OwnerOps == {"updateDescription", "share", "deleteAlbum"}

\* This step answers an owner-only request on a stored album by another principal.
ByNonOwner ==
    /\ \E op \in OwnerOps : Answered(op)
    /\ AlbumExists(res'.albumId)
    /\ res'.user.userId # AlbumOf(res'.albumId).ownerId

\* C3 as stated: a non-owner's owner-only request is answered 403 and changes nothing.
C3_NonOwnerForbidden ==
    [][ByNonOwner => res'.status = 403 /\ albums' = albums /\ images' = images]_vars

(***************************************************************************)
(* C3 amended: an owner-only request by another principal changes no album *)
(* and no image and is answered 403, except a share whose emails field is  *)
(* missing, not an array or empty, which is answered 400 before the album  *)
(* is looked up; and an album is changed or removed only by a request of   *)
(* its owner.                                                              *)
(***************************************************************************)
C3_OwnerOnlyStep ==
    /\ ByNonOwner =>
          /\ albums' = albums /\ images' = images
          /\ IF res'.op = "share" /\ (res'.arg.kind # "array" \/ res'.arg.val = <<>>)
             THEN res'.status = 400
             ELSE res'.status = 403
    /\ \A a \in albums :
          a \notin albums' =>
             /\ \E op \in OwnerOps : Answered(op)
             /\ res'.albumId = a.albumId
             /\ res'.user.userId = a.ownerId
             /\ res'.status = 200

\* C3 amended: a non-owner's owner-only request changes nothing and is answered 403,
\* or 400 for a share without a non-empty emails array.
C3_OwnerOnly == [][C3_OwnerOnlyStep]_vars

\* A shared member who is not the owner asked to delete an album that holds an image,
\* and was refused.
C3_Witness ==
    /\ res.op = "deleteAlbum" /\ res.status = 403
    /\ AlbumExists(res.albumId)
    /\ res.user.email \in SeqToSet(AlbumOf(res.albumId).sharedWith)
    /\ \E i \in images : i.albumId = res.albumId

(***************************************************************************)
(* C4: a successful album delete is by the owner, removes exactly that     *)
(* album and exactly the images whose albumId is that album's; a deleted   *)
(* album never comes back, and a get of an album that is not stored is     *)
(* answered 404.                                                           *)
(***************************************************************************)
C4_DeleteStep ==
    /\ (Answered("deleteAlbum") /\ res'.status = 200) =>
          /\ AlbumExists(res'.albumId)
          /\ AlbumOf(res'.albumId).ownerId = res'.user.userId
          /\ albums' = albums \ {AlbumOf(res'.albumId)}
          /\ images' = {i \in images : i.albumId # res'.albumId}
          /\ \A i \in images' : i.albumId # res'.albumId
    /\ \A albumId \in 1..(nextAlbum - 1) :
          ~AlbumExists(albumId) => \A a \in albums' : a.albumId # albumId
    /\ (Answered("getAlbum") /\ ~AlbumExists(res'.albumId)) => res'.status = 404

\* C4: an album delete removes the album and exactly its images, for good.
C4_DeleteCascades == [][C4_DeleteStep]_vars

\* An album holding an image was deleted while another album and its image remain,
\* and a later get of the deleted album was answered 404.
C4_Witness ==
    /\ res.op = "getAlbum" /\ res.status = 404
    /\ res.albumId < nextAlbum
    /\ nextImage = 3
    /\ Cardinality(images) = 1
    /\ \E i \in images : AlbumExists(i.albumId)

(***************************************************************************)
(* C2 as stated: on a stored album a member-level request passes the       *)
(* access check exactly when the principal is the owner or their email is  *)
(* in sharedWith; any other principal is answered 403 and nothing changes. *)
(***************************************************************************)
MemberOps ==
    {"getAlbum", "upload", "listImages", "listFavorites", "setFavorite", "addComment",
     "getUrl"}

\* This step answers a member-level request on a stored album.
OnStoredAlbum == (\E op \in MemberOps : Answered(op)) /\ AlbumExists(res'.albumId)

\* The principal of the request is the owner of its album or is shared on it.
MayAccess ==
    \/ res'.user.userId = AlbumOf(res'.albumId).ownerId
    \/ res'.user.email \in SeqToSet(AlbumOf(res'.albumId).sharedWith)

NothingStoredChanges == albums' = albums /\ images' = images /\ cloud' = cloud

\* C2 as stated: a member-level request on a stored album is answered 403 exactly
\* when the principal is neither owner nor shared, and then nothing changes.
C2_AccessCheck ==
    [][OnStoredAlbum =>
          /\ MayAccess => res'.status # 403
          /\ ~MayAccess => res'.status = 403 /\ NothingStoredChanges]_vars

(***************************************************************************)
(* C2 amended: a member-level request of a principal who is neither owner  *)
(* nor shared changes nothing, and a request that reaches the album lookup *)
(* is answered 403 exactly when the principal is neither; an upload with   *)
(* no file or a refused file and a comment that is empty or not a string   *)
(* are answered 400 or 500 before the album is looked up, whoever asks.    *)
(***************************************************************************)
\* The request is refused before Album.findOne is reached.
RefusedBeforeLookup ==
    \/ res'.op = "upload" /\ (res'.arg.file.kind = "undefined" \/ MulterRejects(res'.arg.file))
    \/ res'.op = "addComment" /\ (CommentIsEmpty(res'.arg) \/ res'.arg.kind # "string")

C2_AccessStep ==
    /\ OnStoredAlbum =>
          /\ ~MayAccess => NothingStoredChanges
          /\ IF RefusedBeforeLookup
             THEN res'.status \in {400, 500} /\ NothingStoredChanges
             ELSE res'.status = 403 <=> ~MayAccess
    /\ ((\E op \in MemberOps : Answered(op)) /\ ~AlbumExists(res'.albumId)
           /\ ~RefusedBeforeLookup)
          => res'.status = 404

\* C2 amended: as stated, for the requests that reach the album lookup; the others
\* are answered 400 or 500 and change nothing.
C2_AccessCheckAmended == [][C2_AccessStep]_vars

\* A principal who is neither owner nor shared asked to comment on a stored image of a
\* shared album and was answered 403.
C2_Witness ==
    /\ res.op = "addComment" /\ res.status = 403
    /\ AlbumExists(res.albumId)
    /\ AlbumOf(res.albumId).sharedWith # <<>>
    /\ \E i \in images : i.imageId = res.imageId /\ i.albumId = res.albumId

(***************************************************************************)
(* C5: an image delete naming a stored image of a stored album removes the *)
(* image exactly when the principal is the album's owner or the image's    *)
(* uploader; any other principal, shared or not, is answered 403 and the   *)
(* image records stay as they are.                                         *)
(***************************************************************************)
C5_DeleteStep ==
    (Answered("deleteImage") /\ AlbumExists(res'.albumId)) =>
        \A i \in images :
            (i.imageId = res'.imageId /\ i.albumId = res'.albumId) =>
                IF \/ res'.user.userId = AlbumOf(res'.albumId).ownerId
                   \/ res'.user.userId = i.uploadedBy
                THEN res'.status = 200 /\ images' = images \ {i}
                ELSE res'.status = 403 /\ images' = images /\ cloud' = cloud

\* C5: an image delete succeeds for the album's owner and the image's uploader only;
\* anyone else is answered 403 and the image stays.
C5_DeleteImageGuard == [][C5_DeleteStep]_vars

\* A shared member who did not upload the image asked to delete it and was refused; the
\* image is still stored.
C5_Witness ==
    /\ res.op = "deleteImage" /\ res.status = 403
    /\ AlbumExists(res.albumId)
    /\ res.user.email \in SeqToSet(AlbumOf(res.albumId).sharedWith)
    /\ \E i \in images :
          /\ i.imageId = res.imageId /\ i.albumId = res.albumId
          /\ i.uploadedBy # AlbumOf(res.albumId).ownerId

(***************************************************************************)
(* Image of a request.                                                     *)
(***************************************************************************)
\* The stored image the request names by (imageId, albumId), before the step.
NamedImage == CHOOSE i \in images : i.imageId = res'.imageId /\ i.albumId = res'.albumId

\* The image with the same id after the step.
SameImageAfter(i) == CHOOSE k \in images' : k.imageId = i.imageId

(***************************************************************************)
(* C8: a successful setFavorite without a value stores the negation of the *)
(* stored flag, so that a second one restores the flag the first one       *)
(* found; one with a value stores that value whatever was stored; nothing  *)
(* else of the image changes.                                              *)
(***************************************************************************)
C8_FavoriteStep ==
    (Answered("setFavorite") /\ res'.status = 200) =>
        LET before == NamedImage
            after == SameImageAfter(NamedImage)
        IN /\ MayAccess
           /\ IF res'.arg.kind = "undefined"
              THEN /\ after.isFavorite = ~before.isFavorite
                   /\ NextFavorite(after, Undefined) = before.isFavorite
                   /\ (res.op = "setFavorite" /\ res.status = 200
                          /\ res.arg.kind = "undefined" /\ res.imageId = res'.imageId
                          /\ res.albumId = res'.albumId)
                      => (res.body = before.isFavorite /\ after.isFavorite = ~res.body)
              ELSE after.isFavorite = res'.arg.val
           /\ res'.body = after.isFavorite
           /\ images' = (images \ {before}) \cup {[before EXCEPT !.isFavorite = after.isFavorite]}

\* C8: setFavorite without a value negates the stored flag (twice restores it), with
\* a value it stores the value.
C8_FavoriteToggle == [][C8_FavoriteStep]_vars

\* C8 witness: a request without a value by a shared member who is not the owner
\* turned the flag of a starred image off.
C8_Witness ==
    /\ res.op = "setFavorite" /\ res.status = 200 /\ res.arg.kind = "undefined"
    /\ res.body = FALSE
    /\ AlbumExists(res.albumId)
    /\ res.user.userId # AlbumOf(res.albumId).ownerId
    /\ \E i \in images : i.imageId = res.imageId /\ ~i.isFavorite

(***************************************************************************)
(* C9: a successful addComment appends one comment, the principal's userId *)
(* and email with the trimmed text, after the stored comments, which stay  *)
(* as they are; a missing, empty or whitespace-only comment is answered    *)
(* 400 and changes nothing; and in every step the comments of an image     *)
(* that stays stored change only by such an append.                        *)
(***************************************************************************)
IsTrimmed(text) ==
    text # <<>> /\ Head(text) \notin Whitespace /\ text[Len(text)] \notin Whitespace

C9_CommentStep ==
    /\ (Answered("addComment") /\ res'.status = 200) =>
          LET before == NamedImage
              after == SameImageAfter(NamedImage)
              added == after.comments[Len(after.comments)]
          IN /\ MayAccess
             /\ Len(after.comments) = Len(before.comments) + 1
             /\ SubSeq(after.comments, 1, Len(before.comments)) = before.comments
             /\ added.userId = res'.user.userId
             /\ added.userEmail = res'.user.email
             /\ added.comment = Trim(res'.arg.val)
             /\ IsTrimmed(added.comment)
             /\ res'.body = after.comments
             /\ images' = (images \ {before}) \cup
                             {[before EXCEPT !.comments = after.comments]}
    /\ (Answered("addComment")
           /\ (res'.arg.kind = "undefined"
                  \/ (res'.arg.kind = "string"
                         /\ \A n \in 1..Len(res'.arg.val) : res'.arg.val[n] \in Whitespace)))
          => res'.status = 400 /\ images' = images
    /\ \A i \in images :
          \/ \A k \in images' : k.imageId # i.imageId
          \/ SameImageAfter(i).comments = i.comments
          \/ Answered("addComment") /\ res'.status = 200 /\ i = NamedImage

\* C9: addComment appends exactly one trimmed comment last, refuses empty text, and
\* nothing else changes the comments of a stored image.
C9_CommentAppend == [][C9_CommentStep]_vars

\* A second, different comment was appended, from a text with surrounding whitespace.
C9_Witness ==
    /\ res.op = "addComment" /\ res.status = 200
    /\ Len(res.body) = 2
    /\ res.body[1].comment # res.body[2].comment
    /\ res.arg.val # res.body[2].comment
    /\ \E i \in images : i.comments = res.body

(***************************************************************************)
(* C10: an upload that is not answered 201 leaves the image records as     *)
(* they are, and an upload is not answered 201 when the file is over       *)
(* 5 MiB or of no image type, when there is no file, no such album or no   *)
(* access, or when the media host fails; an upload answered 201 adds one   *)
(* record, holding the url, public id and byte size of the object the      *)
(* media host stored; image records are added by no other step.            *)
(***************************************************************************)
UploadMustFail ==
    \/ res'.arg.file.kind = "undefined"
    \/ res'.arg.file.size > 5 * 1024 * 1024
    \/ res'.arg.file.mimetype = MimeText
    \/ ~AlbumExists(res'.albumId)
    \/ ~MayAccess
    \/ res'.arg.uploadResult.kind # "ok"

C10_UploadStep ==
    /\ Answered("upload") =>
          /\ res'.status # 201 => images' = images /\ cloud' = cloud
          /\ UploadMustFail => res'.status # 201
          /\ res'.status = 201 =>
                LET stored == res'.arg.uploadResult
                IN /\ stored.kind = "ok"
                   /\ stored \in cloud'
                   /\ \E new \in images' \ images :
                         /\ images' = images \cup {new}
                         /\ \A i \in images : i.imageId # new.imageId
                         /\ new.imageId = res'.imageId
                         /\ new.albumId = res'.albumId
                         /\ new.uploadedBy = res'.user.userId
                         /\ new.cloudinaryUrl = stored.secure_url
                         /\ new.cloudinaryPublicId = stored.public_id
                         /\ new.size = stored.bytes
                         /\ new.comments = <<>>
    /\ (\E new \in images' : \A i \in images : i.imageId # new.imageId)
          => Answered("upload") /\ res'.status = 201

\* C10: a failed upload stores no image record; a successful one stores the media
\* host's url, public id and byte size.
C10_UploadAllOrNothing == [][C10_UploadStep]_vars

\* A principal with access uploaded an accepted file, the media host failed, and no
\* image record is stored.
C10_Witness ==
    /\ res.op = "upload" /\ res.status = 500
    /\ res.arg.uploadResult.kind = "fail"
    /\ res.arg.file = FilePng
    /\ AlbumExists(res.albumId)
    /\ images = {}

(***************************************************************************)
(* C11: a handler runs only for a request whose token verifies.  As        *)
(* stated: the token examined is the jwt_token cookie when the request     *)
(* has one and otherwise the value of an Authorization header of the       *)
(* Bearer scheme; when it is missing, not signed with the secret or older  *)
(* than seven days, the response is 401 and no record changes.             *)
(*                                                                         *)
(* As the code has it: an empty cookie counts as no cookie, and the header *)
(* value is its second field whatever the scheme.                          *)
(***************************************************************************)
\* This step answers a request (every step but a clock step does).
RequestStep == now' = now

\* The token is signed with the secret and not older than seven days.
Genuine(token) ==
    /\ token.kind = "jwt"
    /\ token.val.key = JwtSecret
    /\ now <= (token.val.payload.iat + ExpiresIn) * 1000

\* The token is missing, forged, malformed, or older than seven days.
Unacceptable(token) ==
    \/ token.kind # "jwt"
    \/ token.val.key # JwtSecret
    \/ now > (token.val.payload.iat + ExpiresIn) * 1000

RecordsUntouched ==
    /\ res'.op = "verifyJWT"
    /\ UNCHANGED <<albums, images, cloud, nextAlbum, nextImage>>

\* The token as the claim names it: the cookie when there is one, else the Bearer value.
StatedToken(r) ==
    IF r.cookie.kind # "undefined" THEN r.cookie
    ELSE IF r.authorization.kind = "undefined" THEN Undefined
    ELSE IF Len(r.authorization.val) >= 2 /\ r.authorization.val[1] = Bearer
    THEN r.authorization.val[2]
    ELSE Undefined

\* C11 as stated: an unacceptable cookie-else-Bearer token is answered 401, untouched.
C11_VerifiedFirstStated ==
    [][RequestStep /\ Unacceptable(StatedToken(req'))
          => res'.status = 401 /\ RecordsUntouched]_vars

\* The token the code examines: the non-empty cookie, else the header's second field.
ExaminedToken(r) ==
    IF r.cookie.kind = "jwt" \/ (r.cookie.kind = "string" /\ r.cookie.val # <<>>)
    THEN r.cookie
    ELSE IF r.authorization.kind = "undefined" THEN Undefined
    ELSE IF Len(r.authorization.val) >= 2 THEN r.authorization.val[2]
    ELSE Undefined

C11_VerifyStep ==
    /\ Unacceptable(ExaminedToken(req'))
          => res'.status = 401 /\ RecordsUntouched
    /\ res'.op # "verifyJWT"
          => /\ Genuine(ExaminedToken(req'))
             /\ res'.user = ExaminedToken(req').val.payload
    /\ (Genuine(ExaminedToken(req'))
           /\ now < (ExaminedToken(req').val.payload.iat + ExpiresIn) * 1000)
          => res'.op # "verifyJWT"

\* C11: every request step is refused with 401 and touches nothing when the examined
\* token is unacceptable, and a handler runs only as the claims of a genuine token.
C11_VerifiedFirst == [][RequestStep => C11_VerifyStep]_vars

\* With an album stored, a request with a forged cookie was refused although its
\* Bearer token was genuine and not expired.
C11_Witness ==
    /\ albums # {}
    /\ res.status = 401
    /\ req.cookie.kind = "jwt"
    /\ req.cookie.val.key = OtherKey
    /\ req.authorization.kind = "header"
    /\ Len(req.authorization.val) = 2
    /\ req.authorization.val[1] = Bearer
    /\ Genuine(req.authorization.val[2])

(***************************************************************************)
(* C12: album deletion and image upload are not atomic with respect to     *)
(* each other.  Images whose albumId matches no stored album (orphans) are *)
(* reachable, and they arise in two ways only: an upload that passed its   *)
(* album and access checks saves its record after the album was deleted,   *)
(* or a deletion deletes the album after an upload saved a record behind   *)
(* its deleteMany.  The deletion itself removes every image of the album   *)
(* present at its deleteMany and the album at its deleteOne.               *)
(***************************************************************************)
Orphans == {i \in images : ~AlbumExists(i.albumId)}

\* The call c takes this step: it leaves the await it was at.
Steps(c, op, pc) == c \in At(op, pc) /\ c \notin calls'

C12_RaceStep ==
    /\ \A i \in Orphans' \ Orphans :
          \/ \E c \in calls :
                /\ Steps(c, "upload", "save")
                /\ c.doc = i
                /\ ~AlbumExists(i.albumId)
          \/ \E c \in calls :
                /\ Steps(c, "deleteAlbum", "deleteOne")
                /\ c.albumId = i.albumId
                /\ i \in images
    /\ \A c \in calls :
          Steps(c, "deleteAlbum", "deleteMany")
             => \A i \in images' : i.albumId # c.albumId
    /\ \A c \in calls :
          Steps(c, "deleteAlbum", "deleteOne")
             => \A a \in albums' : a.albumId # c.albumId

\* C12: a step makes an image an orphan only as an upload's save after the album went,
\* or as a deletion's deleteOne after a save behind its deleteMany.
C12_OrphanByRace == [][C12_RaceStep]_vars

\* An upload has just answered 201 for an image whose album is gone, and every call
\* has answered.
C12_Witness ==
    /\ calls = {}
    /\ res.op = "upload"
    /\ res.status = 201
    /\ \E i \in Orphans : i.imageId = res.imageId

(***************************************************************************)
(* C13: a mutation is a read, a change in memory and a write, and no       *)
(* version is checked.  As stated: the write is of the whole document, so  *)
(* that of two interleaved addComment or share requests only the last      *)
(* writer's addition stays.                                                *)
(*                                                                         *)
(* As the code has it: a setFavorite without a value stores the negation   *)
(* of the flag it read, whatever is stored by then, so that two of them    *)
(* interleaved negate the flag once; the elements pushed on comments and   *)
(* sharedWith are added to what is stored, so that no addition is lost.    *)
(***************************************************************************)
\* The stored image and album a writer's call is about.
StoredImage(c) == CHOOSE i \in images : i.imageId = c.imageId
StoredAlbum(c) == CHOOSE a \in albums : a.albumId = c.albumId

\* Another writer has saved since the call c loaded its document.
CommentsMovedOn(c) == StoredImage(c).comments # c.doc.loaded.comments
SharedWithMovedOn(c) == StoredAlbum(c).sharedWith # c.doc.loaded.sharedWith

\* C13 as stated: a save behind another writer's save leaves the array as the last
\* writer holds it, with its addition and without the other's.
C13_LastWriterWinsStated ==
    [][/\ \A c \in calls :
             Steps(c, "addComment", "save") /\ CommentsMovedOn(c)
                => StoredImage(c)'.comments = c.doc.held.comments
       /\ \A c \in calls :
             Steps(c, "share", "save") /\ SharedWithMovedOn(c)
                => StoredAlbum(c)'.sharedWith = c.doc.held.sharedWith]_vars

C13_WritersStep ==
    /\ \A c \in calls :
          Steps(c, "setFavorite", "save") /\ c.arg = Undefined
             => /\ StoredImage(c)'.isFavorite = ~c.doc.loaded.isFavorite
                /\ StoredImage(c)'.comments = StoredImage(c).comments
    /\ \A c \in calls :
          Steps(c, "addComment", "save")
             => /\ StoredImage(c)'.comments =
                      Append(StoredImage(c).comments,
                             c.doc.held.comments[Len(c.doc.held.comments)])
                /\ StoredImage(c)'.isFavorite = StoredImage(c).isFavorite
    /\ \A i \in images : \E j \in images' :
          j.imageId = i.imageId /\ IsPrefix(i.comments, j.comments)
    /\ \A a \in albums : \E b \in albums' :
          /\ b.albumId = a.albumId
          /\ IsPrefix(a.sharedWith, b.sharedWith)
          /\ \A c \in calls :
                Steps(c, "share", "save") /\ c.albumId = a.albumId
                   => \A k \in 1..Len(c.doc.held.sharedWith) :
                         Includes(b.sharedWith, c.doc.held.sharedWith[k])

\* C13: a toggle stores the negation of the flag its handler read, and every comment
\* and email a writer pushed is in the stored document after its save, behind all
\* that was stored before.
C13_ReadThenWrite == [][C13_WritersStep]_vars

\* Two toggles read the same flag: one has saved its negation and answered, and the
\* other is about to store the same value, so that the flag ends negated once.
C13_Witness ==
    /\ res.op = "setFavorite"
    /\ res.status = 200
    /\ res.arg = Undefined
    /\ \E c \in At("setFavorite", "save") :
          /\ c.arg = Undefined
          /\ c.doc.held.isFavorite = StoredImage(c).isFavorite
          /\ c.doc.loaded.isFavorite # StoredImage(c).isFavorite

(***************************************************************************)
(* C14: the routes that name an image look it up in the album the request  *)
(* names.  As stated: a setFavorite, addComment, delete or getUrl request  *)
(* that names a stored image and an album other than the image's is        *)
(* answered 404, or 403 when the principal has no access to the album      *)
(* named, and the image is neither returned nor changed.                   *)
(*                                                                         *)
(* As the code has it: an addComment whose comment is empty is answered    *)
(* 400, and one whose comment is not a string 500, before anything is      *)
(* looked up.                                                              *)
(***************************************************************************)
ImageOps == {"setFavorite", "addComment", "deleteImage", "getUrl"}

\* This step answers an image request that names a stored image of another album
\* than the one it names.
NamesOtherAlbum ==
    /\ \E op \in ImageOps : Answered(op)
    /\ \E i \in images : i.imageId = res'.imageId /\ i.albumId # res'.albumId

\* This step answers an image request that names a stored image of an album its
\* principal has no access to.
NamesForeignImage ==
    /\ \E op \in ImageOps : Answered(op)
    /\ \E i \in images :
          /\ i.imageId = res'.imageId
          /\ AlbumExists(i.albumId)
          /\ ~hasAccess(AlbumOf(i.albumId), res'.user)

\* Only a 200 answer carries a document or follows a change.
NotReturnedNorChanged ==
    /\ res'.status # 200
    /\ NothingStoredChanges

\* The status the album named calls for: 404, or 403 for a principal without access
\* to it where the route checks access.
ScopedStatus ==
    IF /\ AlbumExists(res'.albumId)
       /\ ~hasAccess(AlbumOf(res'.albumId), res'.user)
       /\ res'.op # "deleteImage"
    THEN 403 ELSE 404

C14_ScopedStep ==
    /\ NamesOtherAlbum
          => /\ NotReturnedNorChanged
             /\ IF res'.op = "addComment" /\ CommentIsEmpty(res'.arg)
                THEN res'.status = 400
                ELSE IF res'.op = "addComment" /\ res'.arg.kind # "string"
                THEN res'.status = 500
                ELSE res'.status = ScopedStatus
    /\ NamesForeignImage => NotReturnedNorChanged

====
